---------------------------- MODULE Spec2Model ----------------------------
(***************************************************************************)
(* A model of @randlabs/js-postgres: the statement builder of Connection   *)
(* (insert / update / delete with WHERE, RETURNING and ON CONFLICT), the   *)
(* transaction helper withTx, the Manager (constructor, connection cache,  *)
(* withConnection, shutdown) and the type parser registry.                 *)
(***************************************************************************)
EXTENDS Integers, Sequences, FiniteSets, TLC

VARIABLES
    bcall,      \* statement builder: the insert/update/delete call last made
    bout,       \* statement builder: what that call built and handed to query()
    tx,         \* withTx: the calls of withTx on one Connection, each with its position
    qlog,       \* withTx: the statements sent to the connection's client, in order
    usingSingleConnection,  \* Manager: the mode, fixed by the constructor
    singleConn, \* Manager: the cached Connection (0: null), named by its client
    pool,       \* Manager: the pool's view of each client it can hand out
    listeners,  \* Manager: the clients with a once("end") listener still set
    callers,    \* Manager: the users of the manager, each with its position
    manager,    \* Manager: what new Manager(options) was given and what it did
    thisPool,   \* Manager: this.pool, "pool" or "null"
    poolEnd,    \* Manager: the calls of end() the Pool has seen, and where its ending stands
    shut,       \* Manager: the calls of shutdown(), each with its position
    wc,         \* Manager: the calls of withConnection(), each with its position
    initialized,    \* parser: the module's flag
    typeParsers,    \* parser: pg.types, the parser set for each wire type
    dec         \* parser: the value being decoded, with what its parser did

bvars == <<bcall, bout>>
tvars == <<tx, qlog>>
cvars == <<manager>>
svars == <<thisPool, poolEnd, shut>>
wvars == <<wc>>
mvars == <<usingSingleConnection, singleConn, pool, listeners, callers, cvars, svars, wvars>>
pvars == <<initialized, typeParsers, dec>>
vars == <<bvars, tvars, mvars, pvars>>

-----------------------------------------------------------------------------
(* Bounds of the model *)

MaxCols == 2        \* columns of a values mapping
MaxWhere == 2       \* entries of a WHERE clause
MaxTx == 2          \* calls of withTx on the connection
MaxClients == 3     \* clients the pool creates
MaxCallers == 2     \* concurrent users of the manager
MaxItems == 2       \* elements of an array value
MaxShutdowns == 2   \* calls of shutdown()
MaxWith == 2        \* concurrent calls of withConnection()

-----------------------------------------------------------------------------
(* JavaScript values                                                       *)

Undefined == [tag |-> "undefined"]
Null == [tag |-> "null"]
Num(n) == [tag |-> "number", n |-> n]
Str(s) == [tag |-> "string", s |-> s]
Bool(b) == [tag |-> "boolean", b |-> b]
\* { raw: <r> }
ObjRaw(r) == [tag |-> "object", raw |-> r]
\* { value: v, operator: op, betweenUpperValue: up }
Cond(v, op, up) == [tag |-> "object", value |-> v, operator |-> op, betweenUpperValue |-> up]
\* an object with none of the properties the builder looks at (a Date, say)
PlainObj == [tag |-> "object"]

\* typeof x
TypeOf(x) == IF x.tag = "null" THEN "object" ELSE x.tag

\* x.f for x neither null nor undefined (those throw a TypeError)
Get(x, f) == IF f \in DOMAIN x THEN x[f] ELSE Undefined

\* x != null (loose: neither null nor undefined)
NotNullish(x) == x.tag \notin {"null", "undefined"}

\* x as a condition:  x ? a : b,  !x
Truthy(x) ==
    CASE x.tag \in {"undefined", "null"} -> FALSE
      [] x.tag = "boolean" -> x.b
      [] x.tag = "number" -> x.n # 0
      [] x.tag = "string" -> x.s # ""
      [] OTHER -> TRUE

-----------------------------------------------------------------------------
(* SQL text: a string is a sequence of tokens, so that "$" + n, an escaped *)
(* identifier and raw text spliced in stay recognisable in the result      *)

Text(s) == [k |-> "text", s |-> s]
Ident(s) == [k |-> "ident", s |-> s]        \* client.escapeIdentifier(s)
RawSql(s) == [k |-> "raw", s |-> s]         \* caller's text, verbatim
Ph(n) == [k |-> "ph", n |-> n]              \* "$" + n.toString()

RECURSIVE Join(_, _)
\* list.join(sep): list is a sequence of strings
Join(list, sep) ==
    IF Len(list) = 0 THEN <<>>
    ELSE IF Len(list) = 1 THEN list[1]
    ELSE list[1] \o <<sep>> \o Join(Tail(list), sep)

RECURSIVE Concat(_)
\* sql.join("")
Concat(pieces) ==
    IF Len(pieces) = 0 THEN <<>> ELSE pieces[1] \o Concat(Tail(pieces))


-----------------------------------------------------------------------------
(* Connection: the statement builder                                       *)

ConflictActionNone == 0
ConflictActionIgnore == 1
ConflictActionUpdate == 2

OpEqual == 0
OpNotEqual == 1
OpLess == 2
OpLessOrEqual == 3
OpGreater == 4
OpGreaterOrEqual == 5
OpBetween == 6

\* an optional argument that was not passed
Absent == [present |-> FALSE, items |-> <<>>]
Given(items) == [present |-> TRUE, items |-> items]

\* the outcome of the test
\*   typeof values[columnName] === 'object' && typeof values[columnName].raw === 'string'
\* "raw" (true), "bound" (false) or "TypeError" (null has typeof 'object', and
\* reading a property of null throws)
IsRawFragment(v) ==
    IF TypeOf(v) # "object" THEN "bound"
    ELSE IF v.tag = "null" THEN "TypeError"
    ELSE IF TypeOf(Get(v, "raw")) = "string" THEN "raw"
    ELSE "bound"

\* let conflictAction = ConflictAction.None; if (options) { ... }
ParseConflictAction(options) ==
    IF ~options.present THEN ConflictActionNone
    ELSE IF options.conflictAction = Str("update") THEN ConflictActionUpdate
    ELSE IF options.conflictAction = Str("ignore") THEN ConflictActionIgnore
    ELSE ConflictActionNone

\* ClassifyConflict with the else of case Update lost: a conflict key is also
\* assigned in DO UPDATE SET
ClassifyConflict_NoElse(acc, conflictAction, options, columnName, sanitizedColumnName, rhs) ==
    IF conflictAction \notin {ConflictActionIgnore, ConflictActionUpdate} THEN acc
    ELSE IF ~options.conflictKeys.present
         THEN [acc EXCEPT !.threw = TRUE]
    ELSE LET a2 == IF columnName \in options.conflictKeys.keys
                   THEN [acc EXCEPT !.conflictColumns = Append(@, sanitizedColumnName)]
                   ELSE acc
         IN  IF conflictAction = ConflictActionUpdate
             THEN [a2 EXCEPT !.upsertColumns =
                        Append(@, sanitizedColumnName \o <<Text(" = ")>> \o rhs)]
             ELSE a2

\* the switch (conflictAction) of the loop body, the same in both branches;
\* rhs is what the column got in the VALUES list
ClassifyConflict(acc, conflictAction, options, columnName, sanitizedColumnName, rhs) ==
    IF conflictAction \notin {ConflictActionIgnore, ConflictActionUpdate} THEN acc
    ELSE IF ~options.conflictKeys.present
         THEN [acc EXCEPT !.threw = TRUE]       \* undefined.includes(...)
    ELSE IF columnName \in options.conflictKeys.keys
         THEN [acc EXCEPT !.conflictColumns = Append(@, sanitizedColumnName)]
    ELSE IF conflictAction = ConflictActionUpdate
         THEN [acc EXCEPT !.upsertColumns =
                    Append(@, sanitizedColumnName \o <<Text(" = ")>> \o rhs)]
    ELSE acc

\* InsertColumn numbering a placeholder by the column's place instead of by
\* params.length
InsertColumn_ColumnIndex(acc, entry, options, conflictAction) ==
    LET columnName == entry.col
        v == entry.val
        sanitizedColumnName == <<Ident(columnName)>>
        a1 == [acc EXCEPT !.columns = Append(@, sanitizedColumnName)]
        test == IsRawFragment(v)
    IN  IF test = "TypeError" THEN [acc EXCEPT !.threw = TRUE]
        ELSE IF test = "bound" THEN
            LET a2 == [a1 EXCEPT !.params = Append(@, v)]
                a3 == [a2 EXCEPT !.columnValues = Append(@, <<Ph(Len(a1.columns))>>)]
            IN  ClassifyConflict(a3, conflictAction, options, columnName,
                                 sanitizedColumnName, <<Ph(Len(a1.columns))>>)
        ELSE
            LET a2 == [a1 EXCEPT !.columnValues = Append(@, <<RawSql(v.raw.s)>>)]
            IN  ClassifyConflict(a2, conflictAction, options, columnName,
                                 sanitizedColumnName, <<RawSql(v.raw.s)>>)

\* one round of  for (const columnName in values)  of insert
InsertColumn(acc, entry, options, conflictAction) ==
    LET columnName == entry.col
        v == entry.val
        sanitizedColumnName == <<Ident(columnName)>>
        a1 == [acc EXCEPT !.columns = Append(@, sanitizedColumnName)]
        test == IsRawFragment(v)
    IN  IF test = "TypeError" THEN [acc EXCEPT !.threw = TRUE]
        ELSE IF test = "bound" THEN
            LET a2 == [a1 EXCEPT !.params = Append(@, v)]
                a3 == [a2 EXCEPT !.columnValues = Append(@, <<Ph(Len(a2.params))>>)]
            IN  ClassifyConflict(a3, conflictAction, options, columnName,
                                 sanitizedColumnName, <<Ph(Len(a2.params))>>)
        ELSE
            LET a2 == [a1 EXCEPT !.columnValues = Append(@, <<RawSql(v.raw.s)>>)]
            IN  ClassifyConflict(a2, conflictAction, options, columnName,
                                 sanitizedColumnName, <<RawSql(v.raw.s)>>)

RECURSIVE InsertLoop(_, _, _, _, _)
InsertLoop(values, i, options, conflictAction, acc) ==
    IF acc.threw \/ i > Len(values) THEN acc
    ELSE InsertLoop(values, i + 1, options, conflictAction,
                    InsertColumn(acc, values[i], options, conflictAction))

RECURSIVE ReturningExpressions(_)
\* for (const item of returning) { ... expressions.push(expr) }
ReturningExpressions(returning) ==
    IF Len(returning) = 0 THEN <<>>
    ELSE LET item == returning[1]
             expr == IF item.as # ""
                     THEN <<RawSql(item.expression), Text(" AS "), Ident(item.as)>>
                     ELSE <<RawSql(item.expression)>>
         IN  <<expr>> \o ReturningExpressions(Tail(returning))

\* addReturningToSQL(sql, returning): the pieces pushed on sql
AddReturningToSQL(sql, returning) ==
    IF returning.present
    THEN sql \o << <<Text(" RETURNING ")>>,
                   Join(ReturningExpressions(returning.items), Text(", ")) >>
    ELSE sql

NoLists == [threw |-> FALSE, params |-> <<>>, columns |-> <<>>, columnValues |-> <<>>,
            conflictColumns |-> <<>>, upsertColumns |-> <<>>, conditions |-> <<>>]

\* insert(tableName, values, options), up to the call of this.query
InsertBuild(tableName, values, options) ==
    LET conflictAction == ParseConflictAction(options)
        acc == InsertLoop(values, 1, options, conflictAction, NoLists)
        head == << <<Text("INSERT INTO "), Ident(tableName), Text(" (")>>,
                   Join(acc.columns, Text(", ")),
                   <<Text(") VALUES (")>>,
                   Join(acc.columnValues, Text(", ")) >>
        tail == IF conflictAction = ConflictActionIgnore
                THEN << <<Text(") ON CONFLICT (")>>, Join(acc.conflictColumns, Text(",")),
                        <<Text(") DO NOTHING")>> >>
                ELSE IF conflictAction = ConflictActionUpdate
                THEN << <<Text(") ON CONFLICT (")>>, Join(acc.conflictColumns, Text(",")),
                        <<Text(") DO UPDATE SET ")>>, Join(acc.upsertColumns, Text(", ")) >>
                ELSE << <<Text(")")>> >>
        sql == AddReturningToSQL(head \o tail,
                                 IF options.present THEN options.returning ELSE Absent)
    IN  acc @@ [sql |-> IF acc.threw THEN <<>> ELSE Concat(sql)]

\* OperatorCondition with case Between numbering after the push as before it
OperatorCondition_BetweenOffByOne(acc, sanitizedColumnName, cond) ==
    LET operator == cond.operator
        is(op) == operator = Num(op)
        one(sym) == [acc EXCEPT !.conditions =
                        Append(@, sanitizedColumnName \o <<Text(sym), Ph(Len(acc.params))>>)]
    IN  IF is(OpEqual) THEN one(" = ")
        ELSE IF is(OpNotEqual) THEN one(" <> ")
        ELSE IF is(OpLess) THEN one(" < ")
        ELSE IF is(OpLessOrEqual) THEN one(" <= ")
        ELSE IF is(OpGreater) THEN one(" > ")
        ELSE IF is(OpGreaterOrEqual) THEN one(" >= ")
        ELSE IF is(OpBetween) THEN
            LET a2 == [acc EXCEPT !.params = Append(@, Get(cond, "betweenUpperValue"))]
            IN  [a2 EXCEPT !.conditions =
                    Append(@, sanitizedColumnName \o
                              <<Text(" BETWEEN "), Ph(Len(a2.params)),
                                Text(" AND "), Ph(Len(a2.params) + 1)>>)]
        ELSE acc

\* the condition a structured entry pushes for its operator: the switch of
\* addWhereToSQL, which has no default case
OperatorCondition(acc, sanitizedColumnName, cond) ==
    LET operator == cond.operator
        is(op) == operator = Num(op)
        one(sym) == [acc EXCEPT !.conditions =
                        Append(@, sanitizedColumnName \o <<Text(sym), Ph(Len(acc.params))>>)]
    IN  IF is(OpEqual) THEN one(" = ")
        ELSE IF is(OpNotEqual) THEN one(" <> ")
        ELSE IF is(OpLess) THEN one(" < ")
        ELSE IF is(OpLessOrEqual) THEN one(" <= ")
        ELSE IF is(OpGreater) THEN one(" > ")
        ELSE IF is(OpGreaterOrEqual) THEN one(" >= ")
        ELSE IF is(OpBetween) THEN
            LET a2 == [acc EXCEPT !.params = Append(@, Get(cond, "betweenUpperValue"))]
            IN  [a2 EXCEPT !.conditions =
                    Append(@, sanitizedColumnName \o
                              <<Text(" BETWEEN "), Ph(Len(a2.params) - 1),
                                Text(" AND "), Ph(Len(a2.params))>>)]
        ELSE acc

\* one round of  for (const whereItem in where)
WhereItem(acc, entry) ==
    LET v == entry.val
        sanitizedColumnName == <<Ident(entry.col)>>
    IN  IF v.tag = "null" THEN [acc EXCEPT !.threw = TRUE]      \* null.value
        ELSE IF /\ TypeOf(v) = "object"
                /\ NotNullish(Get(v, "value"))
                /\ NotNullish(Get(v, "operator"))
        THEN OperatorCondition([acc EXCEPT !.params = Append(@, v.value)],
                               sanitizedColumnName, v)
        ELSE LET a2 == [acc EXCEPT !.params = Append(@, v)]
             IN  [a2 EXCEPT !.conditions =
                    Append(@, sanitizedColumnName \o <<Text(" = "), Ph(Len(a2.params))>>)]

RECURSIVE WhereLoop(_, _, _)
WhereLoop(where, i, acc) ==
    IF acc.threw \/ i > Len(where) THEN acc
    ELSE WhereLoop(where, i + 1, WhereItem(acc, where[i]))

\* addWhereToSQL(sql, params, where): acc carries params, and sql the pieces so far
AddWhereToSQL(sql, acc, where) ==
    IF where.present
    THEN LET a2 == WhereLoop(where.items, 1, acc)
         IN  [acc |-> a2,
              sql |-> sql \o << <<Text(" WHERE ")>>, Join(a2.conditions, Text(", ")) >>]
    ELSE [acc |-> acc, sql |-> sql]

\* one round of  for (const columnName in values)  of update
UpdateColumn(acc, entry) ==
    LET v == entry.val
        sanitizedColumnName == <<Ident(entry.col)>>
        test == IsRawFragment(v)
    IN  IF test = "TypeError" THEN [acc EXCEPT !.threw = TRUE]
        ELSE IF test = "bound" THEN
            LET a2 == [acc EXCEPT !.params = Append(@, v)]
            IN  [a2 EXCEPT !.columnValues =
                    Append(@, sanitizedColumnName \o <<Text(" = "), Ph(Len(a2.params))>>)]
        ELSE [acc EXCEPT !.columnValues =
                    Append(@, sanitizedColumnName \o <<Text(" = "), RawSql(v.raw.s)>>)]

RECURSIVE UpdateLoop(_, _, _)
UpdateLoop(values, i, acc) ==
    IF acc.threw \/ i > Len(values) THEN acc
    ELSE UpdateLoop(values, i + 1, UpdateColumn(acc, values[i]))

\* update(tableName, values, where, options), up to the call of this.query
UpdateBuild(tableName, values, where, options) ==
    LET a1 == UpdateLoop(values, 1, NoLists)
        head == << <<Text("UPDATE "), Ident(tableName), Text(" SET ")>>,
                   Join(a1.columnValues, Text(", ")) >>
        w == IF a1.threw THEN [acc |-> a1, sql |-> head] ELSE AddWhereToSQL(head, a1, where)
        sql == AddReturningToSQL(w.sql, IF options.present THEN options.returning ELSE Absent)
    IN  w.acc @@ [sql |-> IF w.acc.threw THEN <<>> ELSE Concat(sql)]

\* delete(tableName, where, options), up to the call of this.query
DeleteBuild(tableName, where, options) ==
    LET head == << <<Text("DELETE FROM "), Ident(tableName)>> >>
        w == AddWhereToSQL(head, NoLists, where)
        sql == AddReturningToSQL(w.sql, IF options.present THEN options.returning ELSE Absent)
    IN  w.acc @@ [sql |-> IF w.acc.threw THEN <<>> ELSE Concat(sql)]

-----------------------------------------------------------------------------
(* Connection.withTx                                                       *)

TxCalls == 1..MaxTx

\* a call of withTx: where it stands, the call whose callback made it (0: made
\* from outside any callback), the error caught, the error it rejected with,
\* and for the record: the length of qlog when the callback failed, and
\* whether its ROLLBACK succeeded
NoTx == [pc |-> "idle", parent |-> 0, err |-> "none", thrown |-> "none",
         failedAt |-> 0, rollbackOk |-> TRUE]

TInit == tx = [f \in TxCalls |-> NoTx] /\ qlog = <<>>

\* this.client.query(q): the statement joins the client's queue
ClientQuery(q, f) == Append(qlog, [q |-> q, by |-> f])

\* calls are numbered in the order they are made
NextTx(f) == tx[f].pc = "idle" /\ \A g \in TxCalls : g < f => tx[g].pc # "idle"

\* withTx(cb) called from outside any callback: await this.client.query("BEGIN")
WithTx(f) ==
    /\ NextTx(f)
    /\ tx' = [tx EXCEPT ![f].pc = "begin"]
    /\ qlog' = ClientQuery("BEGIN", f)
    /\ UNCHANGED <<bvars, mvars, pvars>>

\* the callback of call g calls withTx on the connection it was given
NestedWithTx(g, f) ==
    /\ tx[g].pc = "cb"
    /\ NextTx(f)
    /\ tx' = [tx EXCEPT ![f].pc = "begin", ![f].parent = g, ![g].pc = "nested"]
    /\ qlog' = ClientQuery("BEGIN", f)
    /\ UNCHANGED <<bvars, mvars, pvars>>

\* BEGIN settles: on failure withTx rejects (the await is outside the try),
\* otherwise the callback is invoked
BeginDone(f) ==
    /\ tx[f].pc = "begin"
    /\ \E ok \in BOOLEAN :
        tx' = IF ok THEN [tx EXCEPT ![f].pc = "cb"]
              ELSE [tx EXCEPT ![f].pc = "rejected", ![f].thrown = "beginError"]
    /\ UNCHANGED <<qlog, bvars, mvars, pvars>>

\* the withTx the callback of g awaits has settled: the callback goes on
NestedSettled(g) ==
    /\ tx[g].pc = "nested"
    /\ \A f \in TxCalls : tx[f].parent = g => tx[f].pc \in {"resolved", "rejected"}
    /\ tx' = [tx EXCEPT ![g].pc = "cb"]
    /\ UNCHANGED <<qlog, bvars, mvars, pvars>>

\* res = await cb(this, cbParam) returns: await this.client.query("COMMIT")
CbReturns(f) ==
    /\ tx[f].pc = "cb"
    /\ tx' = [tx EXCEPT ![f].pc = "commit"]
    /\ qlog' = ClientQuery("COMMIT", f)
    /\ UNCHANGED <<bvars, mvars, pvars>>

\* the catch block: await this.client.query("ROLLBACK")
Catch(f, err) ==
    /\ tx' = [tx EXCEPT ![f].pc = "rollback", ![f].err = err,
                        ![f].failedAt = IF err = "cbError" THEN Len(qlog) ELSE @]
    /\ qlog' = ClientQuery("ROLLBACK", f)

\* await cb(this, cbParam) throws
CbThrows(f) ==
    /\ tx[f].pc = "cb"
    /\ Catch(f, "cbError")
    /\ UNCHANGED <<bvars, mvars, pvars>>

\* COMMIT settles: withTx returns res, or the failure is caught like the callback's
CommitDone(f) ==
    /\ tx[f].pc = "commit"
    /\ \/ tx' = [tx EXCEPT ![f].pc = "resolved"] /\ UNCHANGED qlog
       \/ Catch(f, "commitError")
    /\ UNCHANGED <<bvars, mvars, pvars>>

\* Rethrown letting the error of a failed ROLLBACK replace the original
Rethrown_RollbackError(err, rollbackOk) == IF rollbackOk THEN err ELSE "rollbackError"

\* the error withTx rethrows once ROLLBACK has settled: catch (err2) { } throw err
Rethrown(err, rollbackOk) == err

\* ROLLBACK settles, with or without an error of its own
RollbackDone(f) ==
    /\ tx[f].pc = "rollback"
    /\ \E ok \in BOOLEAN :
        tx' = [tx EXCEPT ![f].pc = "rejected", ![f].rollbackOk = ok,
                         ![f].thrown = Rethrown(tx[f].err, ok)]
    /\ UNCHANGED <<qlog, bvars, mvars, pvars>>

TNext ==
    \E f \in TxCalls :
        \/ WithTx(f)
        \/ \E g \in TxCalls : NestedWithTx(g, f)
        \/ BeginDone(f)
        \/ NestedSettled(f)
        \/ CbReturns(f)
        \/ CbThrows(f)
        \/ CommitDone(f)
        \/ RollbackDone(f)

-----------------------------------------------------------------------------
(* Manager: getConnection and releaseConnection                            *)

Clients == 1..MaxClients
Callers == 1..MaxCallers

\* let maxConnections = 2: the pool's max in single-connection mode
SingleModeMax == 2

\* a client the pool has not created yet
NewClient == [st |-> "new", err |-> "none"]
NoCaller == [pc |-> "idle", conn |-> 0, relErr |-> "none"]

\* a ManagerOptions object; a field left out reads as undefined
ManagerOptions(host, port, user, password, database, usePool, maxConnections) ==
    [tag |-> "object", host |-> host, port |-> port, user |-> user, password |-> password,
     database |-> database, usePool |-> usePool, maxConnections |-> maxConnections]

\* what new Manager is called with
ManagerOptionChoices ==
    {Undefined, Null}
    \cup {ManagerOptions(host, port, user, password, database, usePool, maxConnections) :
            host \in {Undefined, Str("db.local")},
            port \in {Undefined, Num(6543)},
            user \in {Undefined, Str("my-user")},
            password \in {Undefined, Null, Str("my-password")},
            database \in {Undefined, Str("my-database")},
            usePool \in {Undefined, Bool(FALSE), Bool(TRUE)},
            maxConnections \in {Undefined, Num(0), Num(5)}}

\* options with every required field, for either mode
CompleteOptions(single) ==
    ManagerOptions(Undefined, Undefined, Str("my-user"), Str("my-password"),
                   Str("my-database"), Bool(~single), Undefined)

\* let maxConnections = 2; if (options && options.usePool) maxConnections = ...
MaxConnectionsOf(options) ==
    IF Truthy(options) /\ Truthy(options.usePool)
    THEN IF Truthy(options.maxConnections) THEN options.maxConnections.n ELSE 100
    ELSE SingleModeMax

\* the configuration handed to new Pool; password is spread in only when it is
\* neither null nor undefined
PoolConfig(options) ==
    LET config == [host |-> IF Truthy(options.host) THEN options.host ELSE Str("127.0.0.1"),
                   port |-> IF Truthy(options.port) THEN options.port ELSE Num(5432),
                   user |-> options.user,
                   database |-> options.database,
                   max |-> MaxConnectionsOf(options),
                   parseInputDatesAsUTC |-> TRUE]
    IN  IF NotNullish(options.password)
        THEN [password |-> options.password] @@ config
        ELSE config

\* the Pool just created: end() not called
NotEnded == [calls |-> 0, st |-> "open"]
Shutdowns == 1..MaxShutdowns
NoShutdown == [pc |-> "idle", awaited |-> FALSE]
WithCalls == 1..MaxWith
\* a call of withConnection: the connection it was given, what the callback
\* did, the arguments of its calls of conn.release in order, how it ended
NoWith == [pc |-> "idle", conn |-> 0, cb |-> "none", released |-> <<>>, out |-> "none"]

NoManager == [state |-> "none"]
\* the constructor threw: there is no Manager and no Pool
Threw_MissingOptions(options) ==
    [state |-> "threw", options |-> options, error |-> "Error: Missing or invalid options"]
Constructed(options) ==
    [state |-> "constructed", options |-> options, poolConfig |-> PoolConfig(options)]

\* the Manager that new Manager(options) leaves, for options that are an
\* object: the pool is created, nothing is connected
MInitOf(options) ==
    /\ usingSingleConnection = ~Truthy(options.usePool)
    /\ singleConn = 0
    /\ pool = [c \in Clients |-> NewClient]
    /\ listeners = {}
    /\ callers = [p \in Callers |-> NoCaller]
    /\ manager = Constructed(options)
    /\ thisPool = "pool"
    /\ poolEnd = NotEnded
    /\ shut = [s \in Shutdowns |-> NoShutdown]
    /\ wc = [w \in WithCalls |-> NoWith]

\* new Manager(options) with complete options; single is  !options.usePool
MInit(single) == MInitOf(CompleteOptions(single))

\* before any Manager is constructed
MNone ==
    /\ usingSingleConnection = FALSE
    /\ singleConn = 0
    /\ pool = [c \in Clients |-> NewClient]
    /\ listeners = {}
    /\ callers = [p \in Callers |-> NoCaller]
    /\ manager = NoManager
    /\ thisPool = "null"
    /\ poolEnd = NotEnded
    /\ shut = [s \in Shutdowns |-> NoShutdown]
    /\ wc = [w \in WithCalls |-> NoWith]

CheckedOut == {c \in Clients : pool[c].st = "out"}

\* pool.connect() can resolve with client c: the pool creates its clients in
\* order and holds at most max of them
PoolCanConnect(c) ==
    /\ pool[c].st = "new"
    /\ \A d \in Clients : d < c => pool[d].st # "new"
    /\ usingSingleConnection => Cardinality(CheckedOut) < SingleModeMax

\* client.release(err) of the pool: an error makes the pool drop the client;
\* releasing a client that is not checked out throws and changes nothing
PoolRelease(client, err) ==
    IF pool[client].st = "out"
    THEN [pool EXCEPT ![client] = [st |-> IF err = "none" THEN "idle" ELSE "removed",
                                   err |-> err]]
    ELSE pool

\* getConnection(), up to its first await or, with a cached connection, its return
GetConnection(p) ==
    /\ callers[p].pc = "idle"
    /\ IF usingSingleConnection /\ singleConn # 0
       THEN callers' = [callers EXCEPT ![p] = [pc |-> "holding", conn |-> singleConn,
                                               relErr |-> "none"]]
       ELSE IF thisPool = "null"
       \* this.pool!.connect() on null: a TypeError, getConnection rejects
       THEN UNCHANGED callers
       ELSE callers' = [callers EXCEPT ![p] = [pc |-> "connecting", conn |-> 0,
                                               relErr |-> "none"]]
    /\ UNCHANGED <<usingSingleConnection, singleConn, pool, listeners, cvars, svars, wvars, bvars, tvars, pvars>>

\* await this.pool.connect() resolves: the rest of getConnection
Connected(p) ==
    /\ callers[p].pc = "connecting"
    /\ \E c \in Clients :
        /\ PoolCanConnect(c)
        /\ pool' = [pool EXCEPT ![c].st = "out"]
        /\ IF usingSingleConnection
           THEN /\ singleConn' = c
                /\ listeners' = listeners \cup {c}
           ELSE UNCHANGED <<singleConn, listeners>>
        /\ callers' = [callers EXCEPT ![p].pc = "holding", ![p].conn = c]
    /\ UNCHANGED <<usingSingleConnection, cvars, svars, wvars, bvars, tvars, pvars>>

\* await this.pool.connect() rejects: getConnection rejects
ConnectFailed(p) ==
    /\ callers[p].pc = "connecting"
    /\ callers' = [callers EXCEPT ![p].pc = "idle"]
    /\ UNCHANGED <<usingSingleConnection, singleConn, pool, listeners, cvars, svars, wvars, bvars, tvars, pvars>>

\* ReleaseConnection forgetting to drop the cached connection on an error
ReleaseConnection_KeepsCache(client, err) ==
    IF usingSingleConnection
    THEN IF err # "none"
         THEN pool' = PoolRelease(client, err) /\ UNCHANGED singleConn
         ELSE UNCHANGED <<singleConn, pool>>
    ELSE pool' = PoolRelease(client, err) /\ UNCHANGED singleConn

\* releaseConnection(client, err)
ReleaseConnection(client, err) ==
    IF usingSingleConnection
    THEN IF err # "none"
         THEN singleConn' = 0 /\ pool' = PoolRelease(client, err)
         ELSE UNCHANGED <<singleConn, pool>>
    ELSE pool' = PoolRelease(client, err) /\ UNCHANGED singleConn

\* conn.release(err) by a caller that holds conn
Release(p, err) ==
    /\ callers[p].pc = "holding"
    /\ ReleaseConnection(callers[p].conn, err)
    /\ callers' = [callers EXCEPT ![p] = [pc |-> "idle", conn |-> 0, relErr |-> err]]
    /\ UNCHANGED <<usingSingleConnection, listeners, cvars, svars, wvars, bvars, tvars, pvars>>

\* the "end" event of client c: client.once("end", () => { this.singleConn = null })
ClientEnd(c) ==
    /\ c \in listeners
    /\ singleConn' = 0
    /\ listeners' = listeners \ {c}
    /\ UNCHANGED <<usingSingleConnection, pool, callers, cvars, svars, wvars, bvars, tvars, pvars>>

\* the promise of p.end() settles once the pool holds no client that is
\* checked out or being connected
Drained ==
    /\ CheckedOut = {}
    /\ \A p \in Callers : callers[p].pc # "connecting"
    /\ \A w \in WithCalls : wc[w].pc # "connecting"

\* try { await p.end() } catch (err) { } without the catch
AwaitEnd_NoCatch(outcome) == IF outcome = "ended" THEN "resolved" ELSE "rejected"

\* try { await p.end() } catch (err) { }: how shutdown goes on after the await
AwaitEnd(outcome) == "resolved"

\* shutdown(), up to  await p.end()  or, without a pool, to its return
Shutdown(s) ==
    /\ shut[s].pc = "idle"
    \* c.release(new Error("shutting down")), the error of a release the pool
    \* refuses is swallowed
    /\ singleConn' = 0
    /\ pool' = IF singleConn # 0 THEN PoolRelease(singleConn, "shutting down") ELSE pool
    /\ IF thisPool = "pool"
       THEN /\ thisPool' = "null"
            /\ poolEnd' = [calls |-> poolEnd.calls + 1, st |-> "ending"]
            /\ shut' = [shut EXCEPT ![s] = [pc |-> "ending", awaited |-> TRUE]]
       ELSE /\ shut' = [shut EXCEPT ![s] = [pc |-> "resolved", awaited |-> FALSE]]
            /\ UNCHANGED <<thisPool, poolEnd>>
    /\ UNCHANGED <<usingSingleConnection, listeners, callers, cvars, wvars, bvars, tvars, pvars>>

\* await p.end() settles, the pool ended or the ending failed: the rest of shutdown
EndSettled(s) ==
    /\ shut[s].pc = "ending"
    /\ poolEnd.st = "ending"
    /\ Drained
    /\ \E outcome \in {"ended", "failed"} :
        /\ poolEnd' = [poolEnd EXCEPT !.st = outcome]
        /\ shut' = [shut EXCEPT ![s].pc = AwaitEnd(outcome)]
    /\ UNCHANGED <<usingSingleConnection, singleConn, pool, listeners, callers, thisPool,
                   cvars, wvars, bvars, tvars, pvars>>

\* releaseConnection(client, err) throws: it reaches client.release(err) and
\* the pool finds the client already released
ReleaseThrows(client, err) ==
    /\ usingSingleConnection => err # "none"
    /\ pool[client].st # "out"

\* withConnection(cb), up to the await inside getConnection or, with a cached
\* connection, to the call of cb
WithConnection(w) ==
    /\ wc[w].pc = "idle"
    /\ IF usingSingleConnection /\ singleConn # 0
       THEN wc' = [wc EXCEPT ![w] = [NoWith EXCEPT !.pc = "cb", !.conn = singleConn]]
       ELSE IF thisPool = "null"
       \* this.pool!.connect() on null: getConnection rejects, and so does withConnection
       THEN wc' = [wc EXCEPT ![w] = [NoWith EXCEPT !.pc = "rejected", !.out = "TypeError"]]
       ELSE wc' = [wc EXCEPT ![w] = [NoWith EXCEPT !.pc = "connecting"]]
    /\ UNCHANGED <<usingSingleConnection, singleConn, pool, listeners, callers, cvars, svars,
                   bvars, tvars, pvars>>

\* pool.connect() resolves inside getConnection: withConnection calls cb(conn)
WithConnected(w) ==
    /\ wc[w].pc = "connecting"
    /\ \E c \in Clients :
        /\ PoolCanConnect(c)
        /\ pool' = [pool EXCEPT ![c].st = "out"]
        /\ IF usingSingleConnection
           THEN /\ singleConn' = c
                /\ listeners' = listeners \cup {c}
           ELSE UNCHANGED <<singleConn, listeners>>
        /\ wc' = [wc EXCEPT ![w].pc = "cb", ![w].conn = c]
    /\ UNCHANGED <<usingSingleConnection, callers, cvars, svars, bvars, tvars, pvars>>

\* pool.connect() rejects: getConnection rejects, and so does withConnection
WithConnectFailed(w) ==
    /\ wc[w].pc = "connecting"
    /\ wc' = [wc EXCEPT ![w].pc = "rejected", ![w].out = "connect error"]
    /\ UNCHANGED <<usingSingleConnection, singleConn, pool, listeners, callers, cvars, svars,
                   bvars, tvars, pvars>>

\* res = await cb(conn, cbParam) resolves: conn.release(); return res.
\* conn.release() sits in the try: when it throws, the catch calls
\* conn.release(err) with what it threw
CallbackReturns(w) ==
    /\ wc[w].pc = "cb"
    /\ IF ReleaseThrows(wc[w].conn, "none")
       THEN /\ ReleaseConnection(wc[w].conn, "already released")
            /\ wc' = [wc EXCEPT ![w].cb = "returned",
                                ![w].released = <<"none", "already released">>,
                                ![w].pc = "rejected",
                                ![w].out = "already released"]
       ELSE /\ ReleaseConnection(wc[w].conn, "none")
            /\ wc' = [wc EXCEPT ![w].cb = "returned",
                                ![w].released = <<"none">>,
                                ![w].pc = "resolved",
                                ![w].out = "result"]
    /\ UNCHANGED <<usingSingleConnection, listeners, callers, cvars, svars, bvars, tvars, pvars>>

\* await cb(conn, cbParam) rejects: conn.release(err); throw err. A release
\* that throws leaves the catch with its own error
CallbackThrows(w) ==
    /\ wc[w].pc = "cb"
    /\ ReleaseConnection(wc[w].conn, "cb error")
    /\ wc' = [wc EXCEPT ![w].cb = "threw",
                        ![w].released = <<"cb error">>,
                        ![w].pc = "rejected",
                        ![w].out = IF ReleaseThrows(wc[w].conn, "cb error")
                                   THEN "already released" ELSE "cb error"]
    /\ UNCHANGED <<usingSingleConnection, listeners, callers, cvars, svars, bvars, tvars, pvars>>

MNext ==
    \/ \E p \in Callers :
        \/ GetConnection(p)
        \/ Connected(p)
        \/ ConnectFailed(p)
        \/ \E err \in {"none", "error"} : Release(p, err)
    \/ \E c \in Clients : ClientEnd(c)

\* the users of the manager go through withConnection, and the manager is
\* shut down at any point
LNext ==
    \/ \E w \in WithCalls :
        \/ WithConnection(w)
        \/ WithConnected(w)
        \/ WithConnectFailed(w)
        \/ CallbackReturns(w)
        \/ CallbackThrows(w)
    \/ \E c \in Clients : ClientEnd(c)
    \/ \E s \in Shutdowns : Shutdown(s) \/ EndSettled(s)

-----------------------------------------------------------------------------
(* parser: the registry of type parsers                                    *)

ScalarTypes ==
    {"DATE", "TIME", "TIMETZ", "TIMESTAMP", "TIMESTAMPTZ", "INT2", "INT4", "INT8",
     "FLOAT4", "FLOAT8", "NUMERIC", "MONEY", "BOOL", "BYTEA"}

\* 1182 1183 1270 1115 1185 1005 1007 1016 1021 1022 1231 791 1000 1001
ArrayTypes ==
    {"_date", "_time", "_timetz", "_timestamp", "_timestamptz", "_int2", "_int4",
     "_int8", "_float4", "_float8", "_numeric", "_money", "_bool", "_bytea"}

\* TEXT stands for the types registerParsers leaves to pg
Types == ScalarTypes \cup ArrayTypes \cup {"TEXT"}

Reg(type, format, parser) == [type |-> type, format |-> format, parser |-> parser]

\* the calls of pg.types.setTypeParser made by registerParsers
Registrations ==
    {Reg(t, "text", "parseDbDate") : t \in {"DATE", "TIME", "TIMETZ", "TIMESTAMP", "TIMESTAMPTZ"}}
    \cup {Reg(t, "text", "parseDbDateArray") :
            t \in {"_date", "_time", "_timetz", "_timestamp", "_timestamptz"}}
    \cup {Reg("INT2", "text", "parseDbInteger"), Reg("INT4", "text", "parseDbInteger"),
          Reg("INT8", "text", "parseDbBigInteger"),
          Reg("_int2", "text", "parseDbIntegerArray"), Reg("_int4", "text", "parseDbIntegerArray"),
          Reg("_int8", "text", "parseDbBigIntegerArray"),
          Reg("FLOAT4", "text", "parseDbFloat"), Reg("FLOAT8", "text", "parseDbFloat"),
          Reg("NUMERIC", "text", "parseDbBigFloat"), Reg("MONEY", "text", "parseDbBigFloat"),
          Reg("_float4", "text", "parseDbFloatArray"),
          Reg("_float8", "text", "parseDbBigFloatArray"),
          Reg("_numeric", "text", "parseDbBigFloatArray"),
          Reg("_money", "text", "parseDbBigFloatArray"),
          Reg("BOOL", "text", "parseDbBool"), Reg("_bool", "text", "parseDbBoolArray"),
          Reg("BYTEA", "binary", "parseByteA"), Reg("_bytea", "text", "parseByteAArray")}

NoParsers == [t \in Types |-> Reg(t, "text", "default")]

AllRegistered ==
    [t \in Types |->
        IF \E r \in Registrations : r.type = t
        THEN CHOOSE r \in Registrations : r.type = t
        ELSE NoParsers[t]]

NoDecode == [state |-> "idle"]

\* the module once loaded; registered: registerParsers has run (every Manager
\* constructor calls it)
PInit(registered) ==
    /\ initialized = registered
    /\ typeParsers = IF registered THEN AllRegistered ELSE NoParsers
    /\ dec = NoDecode

\* what a parser did: the value returned, the library functions it invoked, in
\* order, and whether it threw
Returned(out, calls) == [out |-> out, calls |-> calls, threw |-> FALSE]
Threw(calls) == [out |-> Undefined, calls |-> calls, threw |-> TRUE]

\* the texts decoded
Texts == {"42", "9007199254740993", "1.5", "t", "off", "2020-01-01"}

\* parseInt(val, 10): the number, and whether it lies in the safe-integer range
ParseInt(val) ==
    CASE val = "42" -> [repr |-> "42", safe |-> TRUE]
      [] val = "9007199254740993" -> [repr |-> "9007199254740992", safe |-> FALSE]
      [] val = "1.5" -> [repr |-> "1", safe |-> TRUE]
      [] val = "2020-01-01" -> [repr |-> "2020", safe |-> TRUE]
      [] OTHER -> [repr |-> "NaN", safe |-> FALSE]

\* parseFloat(val)
ParseFloat(val) ==
    CASE val = "42" -> "42"
      [] val = "9007199254740993" -> "9007199254740992"
      [] val = "1.5" -> "1.5"
      [] val = "2020-01-01" -> "2020"
      [] OTHER -> "NaN"

\* BigInt(val) takes integer literals only
BigIntAccepts(val) == val \in {"42", "9007199254740993"}

JsNumber(repr) == [tag |-> "number", repr |-> repr]

\* createArrayParser(value, transform): nothing is parsed yet
CreateArrayParser(value, transform) ==
    Returned([tag |-> "IArrayParser", value |-> value, transform |-> transform], <<>>)

\* parser(val). onNull is what postgres-bytea's parser, which is not part of
\* this repository, does with null: "TypeError" or "null"
Apply(parser, val, onNull) ==
    CASE parser = "parseDbDate" ->
            IF val # Null THEN Returned([tag |-> "moment", of |-> val.s], <<"moment.utc">>)
            ELSE Returned(Null, <<>>)
      [] parser = "parseDbInteger" ->
            IF val = Null THEN Returned(Null, <<>>)
            ELSE Returned(JsNumber(ParseInt(val.s).repr), <<"parseInt">>)
      [] parser = "parseDbBigInteger" ->
            IF val = Null THEN Returned(Null, <<>>)
            ELSE IF ParseInt(val.s).safe
                 THEN Returned(JsNumber(ParseInt(val.s).repr), <<"parseInt">>)
            ELSE IF BigIntAccepts(val.s)
                 THEN Returned([tag |-> "bigint", of |-> val.s], <<"parseInt", "BigInt">>)
            ELSE Threw(<<"parseInt", "BigInt">>)
      [] parser = "parseDbFloat" ->
            IF val = Null THEN Returned(Null, <<>>)
            ELSE Returned(JsNumber(ParseFloat(val.s)), <<"parseFloat">>)
      [] parser = "parseDbBigFloat" ->
            IF val = Null THEN Returned(Null, <<>>)
            ELSE Returned([tag |-> "BigNumber", of |-> val.s], <<"BigNumber">>)
      [] parser = "parseDbBool" ->
            IF val = Null THEN Returned(Null, <<>>)
            ELSE Returned(Bool(val.s \in {"TRUE", "t", "true", "y", "yes", "on", "1"}),
                          <<"===">>)
      [] parser = "parseByteA" ->
            IF val = Null
            THEN IF onNull = "TypeError" THEN Threw(<<"parseByteA">>)
                 ELSE Returned(Null, <<"parseByteA">>)
            ELSE Returned([tag |-> "Buffer", of |-> val.s], <<"parseByteA">>)
      [] parser = "parseDbDateArray" ->
            IF val = Null THEN Returned(Null, <<>>) ELSE CreateArrayParser(val, "parseDbDate")
      [] parser = "parseDbIntegerArray" ->
            IF val = Null THEN Returned(Null, <<>>) ELSE CreateArrayParser(val, "parseDbInteger")
      [] parser = "parseDbBigIntegerArray" ->
            IF val = Null THEN Returned(Null, <<>>)
            ELSE CreateArrayParser(val, "parseDbBigInteger")
      [] parser = "parseDbFloatArray" ->
            IF val = Null THEN Returned(Null, <<>>) ELSE CreateArrayParser(val, "parseDbFloat")
      [] parser = "parseDbBigFloatArray" ->
            IF val = Null THEN Returned(Null, <<>>) ELSE CreateArrayParser(val, "parseDbBigFloat")
      [] parser = "parseDbBoolArray" ->
            IF val = Null THEN Returned(Null, <<>>) ELSE CreateArrayParser(val, "parseDbBool")
      [] parser = "parseByteAArray" ->
            IF val = Null THEN Returned(Null, <<>>) ELSE CreateArrayParser(val, "parseByteA")

\* an array literal, written as its elements; NULL is the null element
ArrayLiteral(items) == [tag |-> "string", items |-> items]

\* parseArray.parse(value, (entry) => entry === null ? null : transform(entry)):
\* postgres-array hands every element, null for NULL, to the callback
ParseArray(parserObject, onNull) ==
    [i \in 1..Len(parserObject.value.items) |->
        LET entry == IF parserObject.value.items[i] = "NULL" THEN Null
                     ELSE Str(parserObject.value.items[i])
        IN  IF entry = Null THEN Returned(Null, <<>>)
            ELSE Apply(parserObject.transform, entry, onNull)]

\* the wire values of a column of the type
WireValues(type) ==
    IF type \in ArrayTypes
    THEN {Null} \cup {ArrayLiteral(items) :
                        items \in UNION {[1..n -> {"NULL", "42", "t"}] : n \in 0..MaxItems}}
    ELSE {Null} \cup {Str(t) : t \in Texts}

\* registerParsers()
RegisterParsers ==
    /\ IF ~initialized
       THEN initialized' = TRUE /\ typeParsers' = AllRegistered
       ELSE UNCHANGED <<initialized, typeParsers>>
    /\ UNCHANGED <<dec, bvars, tvars, mvars>>

\* a parser registerParsers has set is called with a wire value
Decode ==
    /\ dec.state = "idle"
    /\ \E type \in Types, onNull \in {"TypeError", "null"} :
        /\ typeParsers[type].parser # "default"
        /\ \E val \in WireValues(type) :
            dec' = [state |-> "parsed", type |-> type, input |-> val, onNull |-> onNull,
                    res |-> Apply(typeParsers[type].parser, val, onNull), elems |-> <<>>]
    /\ UNCHANGED <<initialized, typeParsers, bvars, tvars, mvars>>

\* parse() of the IArrayParser a parser has returned
Materialize ==
    /\ dec.state = "parsed"
    /\ ~dec.res.threw
    /\ dec.res.out.tag = "IArrayParser"
    /\ dec' = [dec EXCEPT !.state = "materialized",
                          !.elems = ParseArray(dec.res.out, dec.onNull)]
    /\ UNCHANGED <<initialized, typeParsers, bvars, tvars, mvars>>

\* the value has been delivered
Delivered ==
    /\ dec.state # "idle"
    /\ dec' = NoDecode
    /\ UNCHANGED <<initialized, typeParsers, bvars, tvars, mvars>>

PNext == RegisterParsers \/ Decode \/ Materialize \/ Delivered

-----------------------------------------------------------------------------
(* Manager: the constructor, which ends with registerParsers()             *)

\* new Manager(options)
NewManager ==
    /\ manager.state = "none"
    /\ \E options \in ManagerOptionChoices :
        IF ~Truthy(options)
        THEN /\ manager' = Threw_MissingOptions(options)
             /\ UNCHANGED <<usingSingleConnection, singleConn, pool, thisPool, poolEnd, pvars>>
        ELSE /\ usingSingleConnection' = ~Truthy(options.usePool)
             /\ manager' = Constructed(options)
             /\ pool' = [c \in Clients |-> NewClient]
             /\ thisPool' = "pool"
             /\ poolEnd' = NotEnded
             /\ singleConn' = 0
             \* registerParsers()
             /\ IF ~initialized
                THEN initialized' = TRUE /\ typeParsers' = AllRegistered
                ELSE UNCHANGED <<initialized, typeParsers>>
             /\ UNCHANGED dec
    /\ UNCHANGED <<listeners, callers, shut, wc, bvars, tvars>>

-----------------------------------------------------------------------------
(* The calls made to the statement builder                                 *)

\* the property names of a mapping, in iteration order
ColNames == <<"id", "name", "ts", "tag", "qty">>

\* the mapping whose i-th property (in iteration order) has the value f[i]
Entries(f) == [i \in 1..Len(f) |-> [col |-> ColNames[i], val |-> f[i]]]

Mappings(S, n) == UNION {{Entries(f) : f \in [1..k -> S]} : k \in 0..n}

ColumnValues ==
    {Num(1), Str("Bo"), Bool(TRUE), Null, Undefined,
     ObjRaw(Str("now()")), ObjRaw(Num(5)), PlainObj}

\* the values of the SET list of update
UpdateValues == {Num(5), Str("Bo"), Null, ObjRaw(Str("now()"))}

WhereValues ==
    {Num(7), Null}
    \cup {Cond(Num(10), Num(op), Undefined) : op \in OpEqual..OpGreaterOrEqual}
    \cup {Cond(Num(10), Num(OpBetween), Num(20))}
    \cup {Cond(Num(10), Num(OpBetween + 1), Undefined)}    \* no member of the enum
    \cup {Cond(Null, Num(OpEqual), Undefined)}             \* value: null
    \cup {Cond(Num(10), Undefined, Undefined)}             \* no operator

WhereClauses == {Absent} \cup {Given(w) : w \in Mappings(WhereValues, MaxWhere)}

ReturningChoices ==
    {Absent,
     Given(<<[expression |-> "id", as |-> ""]>>),
     Given(<<[expression |-> "now()", as |-> "at"], [expression |-> "id", as |-> ""]>>)}

NoKeys == [present |-> FALSE, keys |-> {}]
NoOptions == [present |-> FALSE, conflictAction |-> Undefined, conflictKeys |-> NoKeys,
              returning |-> Absent]

ConflictKeyChoices ==
    {NoKeys} \cup {[present |-> TRUE, keys |-> K] : K \in SUBSET {ColNames[i] : i \in 1..MaxCols}}

InsertOptionChoices ==
    {NoOptions} \cup
    {[present |-> TRUE, conflictAction |-> a, conflictKeys |-> k, returning |-> r] :
        a \in {Undefined, Str("ignore"), Str("update")},
        k \in ConflictKeyChoices,
        r \in ReturningChoices}

\* UpdateOptions and DeleteOptions: returning only
PlainOptionChoices ==
    {NoOptions} \cup
    {[present |-> TRUE, conflictAction |-> Undefined, conflictKeys |-> NoKeys, returning |-> r] :
        r \in {Given(<<[expression |-> "now()", as |-> "at"]>>)}}

NoCall == [op |-> "none", tableName |-> "", values |-> <<>>, where |-> Absent,
           options |-> NoOptions]
IdleOut == NoLists @@ [sql |-> <<>>, state |-> "idle"]

\* return this.query(sql.join(""), params): the statement reaches the client,
\* unless the builder threw before
Query(built) == built @@ [state |-> IF built.threw THEN "threw" ELSE "executed"]

BInit == bcall = NoCall /\ bout = IdleOut

Insert ==
    /\ bout.state = "idle"
    /\ \E values \in Mappings(ColumnValues, MaxCols), options \in InsertOptionChoices :
        /\ bcall' = [op |-> "insert", tableName |-> "users", values |-> values,
                     where |-> Absent, options |-> options]
        /\ bout' = Query(InsertBuild("users", values, options))
    /\ UNCHANGED <<tvars, mvars, pvars>>

Update ==
    /\ bout.state = "idle"
    /\ \E values \in Mappings(UpdateValues, MaxCols), where \in WhereClauses,
          options \in PlainOptionChoices :
        /\ bcall' = [op |-> "update", tableName |-> "t", values |-> values,
                     where |-> where, options |-> options]
        /\ bout' = Query(UpdateBuild("t", values, where, options))
    /\ UNCHANGED <<tvars, mvars, pvars>>

Delete ==
    /\ bout.state = "idle"
    /\ \E where \in WhereClauses, options \in PlainOptionChoices :
        /\ bcall' = [op |-> "delete", tableName |-> "t", values |-> <<>>,
                     where |-> where, options |-> options]
        /\ bout' = Query(DeleteBuild("t", where, options))
    /\ UNCHANGED <<tvars, mvars, pvars>>

\* the promise of the call settles (or its exception reaches the caller)
Settle ==
    /\ bout.state # "idle"
    /\ bcall' = NoCall
    /\ bout' = IdleOut
    /\ UNCHANGED <<tvars, mvars, pvars>>

Init == BInit /\ TInit /\ MInit(TRUE) /\ PInit(TRUE)

Next == Insert \/ Update \/ Delete \/ Settle

Spec == Init /\ [][Next]_vars

-----------------------------------------------------------------------------
(* Reading a statement back: what the claims about the SQL text speak of   *)

\* the place of the first token of seq that is in S, 0 when there is none
First(seq, S) ==
    IF \E i \in 1..Len(seq) : seq[i] \in S
    THEN CHOOSE i \in 1..Len(seq) : seq[i] \in S /\ \A j \in 1..(i - 1) : seq[j] \notin S
    ELSE 0

\* the tokens after the first `open` up to the next token of `closers` (or the end)
Segment(seq, open, closers) ==
    LET a == First(seq, {open})
        rest == SubSeq(seq, a + 1, Len(seq))
        b == First(rest, closers)
    IN  IF a = 0 THEN <<>>
        ELSE SubSeq(rest, 1, IF b = 0 THEN Len(rest) ELSE b - 1)

IsPh(t) == t.k = "ph"
NotComma(t) == t # Text(", ")

\* the placeholders of a statement, in the order they appear
Placeholders(sql) == SelectSeq(sql, IsPh)

\* a raw-fragment marker: an object whose raw field is a string
RawMarker(v) == v.tag = "object" /\ "raw" \in DOMAIN v /\ v.raw.tag = "string"

\* how many of the first i columns are bound (are no raw fragments)
Rank(values, i) == Cardinality({j \in 1..i : ~RawMarker(values[j].val)})

\* what column i is to have in the VALUES list
ExpectedEntry(values, i) ==
    IF RawMarker(values[i].val) THEN RawSql(values[i].val.raw.s)
    ELSE Ph(Rank(values, i))

\* the VALUES list of an INSERT statement, entry by entry
ValuesList(sql) ==
    SelectSeq(Segment(sql, Text(") VALUES ("), {Text(")"), Text(") ON CONFLICT (")}),
              NotComma)

InsertExecuted == bcall.op = "insert" /\ bout.state = "executed"

\* C1: in the statement an insert executes, the VALUES list has one entry per
\* column in iteration order; the bound columns get $1..$M in that order and
\* params[i] is the value of the column that got $i; a raw column contributes its
\* text, no placeholder and no parameter (so params has exactly M elements).
C1_InsertPlaceholders ==
    InsertExecuted =>
        LET values == bcall.values
            list == ValuesList(bout.sql)
        IN  /\ Len(list) = Len(values)
            /\ \A i \in 1..Len(values) : list[i] = ExpectedEntry(values, i)
            /\ Len(bout.params) = Rank(values, Len(values))
            /\ \A i \in 1..Len(values) :
                  ~RawMarker(values[i].val) => bout.params[Rank(values, i)] = values[i].val

\* a raw fragment before a bound column: the bound column gets $1, not $2
C1_Witness ==
    /\ InsertExecuted
    /\ Len(bcall.values) >= 2
    /\ RawMarker(bcall.values[1].val)
    /\ ~RawMarker(bcall.values[2].val)
    /\ bout.params = <<bcall.values[2].val>>

\* the SET list of update: how many values are bound
BoundValues(values) == Rank(values, Len(values))

\* C2: in the statement an update or delete executes, the placeholders are
\* exactly $1..$L in order of appearance, L the length of params (none bound
\* without a placeholder, none past the end), the SET bindings first in column
\* order and the WHERE bindings after them.
C2_PlaceholdersMatchParams ==
    (bcall.op \in {"update", "delete"} /\ bout.state = "executed") =>
        /\ Placeholders(bout.sql) = [k \in 1..Len(bout.params) |-> Ph(k)]
        /\ \A i \in 1..Len(bcall.values) :
              ~RawMarker(bcall.values[i].val) =>
                    bout.params[Rank(bcall.values, i)] = bcall.values[i].val

\* what a column of insert or update has got: the last token of its entry
Rendered(i) == bout.columnValues[i][Len(bout.columnValues[i])]

\* C3: a column value of insert and update is inlined only when it is an
\* object whose raw field is a string; every other value (null and undefined
\* too) is appended to params and rendered as a placeholder, and the statement
\* is executed.  (Calls that ask for conflict handling or pass a WHERE clause
\* are left to the claims about those.)
C3_OnlyRawMarkerInlined ==
    ( /\ bcall.op \in {"insert", "update"}
      /\ bout.state # "idle"
      /\ ParseConflictAction(bcall.options) = ConflictActionNone
      /\ ~bcall.where.present ) =>
        /\ bout.state = "executed"
        /\ Len(bout.columnValues) = Len(bcall.values)
        /\ \A i \in 1..Len(bcall.values) :
              LET v == bcall.values[i].val
              IN  IF RawMarker(v) THEN Rendered(i) = RawSql(v.raw.s)
                  ELSE /\ Rendered(i) = Ph(Rank(bcall.values, i))
                       /\ bout.params[Rank(bcall.values, i)] = v

\* a structured condition: an object with value and operator set
IsCondition(v) ==
    /\ v.tag = "object"
    /\ "value" \in DOMAIN v /\ NotNullish(v.value)
    /\ "operator" \in DOMAIN v /\ NotNullish(v.operator)

IsBetween(v) == IsCondition(v) /\ v.operator = Num(OpBetween)

\* an operator of WhereConditionOperator
HasKnownOperator(v) == \E op \in OpEqual..OpBetween : v.operator = Num(op)

\* the parameters an entry is to bind
Binds(v) == IF IsBetween(v) THEN 2 ELSE 1

RECURSIVE BoundBefore(_, _)
\* the parameters the entries before the i-th are to bind
BoundBefore(where, i) ==
    IF i <= 1 THEN 0 ELSE BoundBefore(where, i - 1) + Binds(where[i - 1].val)

OpSql(op) ==
    CASE op = OpEqual -> " = "
      [] op = OpNotEqual -> " <> "
      [] op = OpLess -> " < "
      [] op = OpLessOrEqual -> " <= "
      [] op = OpGreater -> " > "
      [] op = OpGreaterOrEqual -> " >= "

\* the condition an entry is to emit when its first parameter is $k
ExpectedCondition(col, v, k) ==
    IF IsBetween(v)
    THEN <<Ident(col), Text(" BETWEEN "), Ph(k), Text(" AND "), Ph(k + 1)>>
    ELSE IF IsCondition(v) THEN <<Ident(col), Text(OpSql(v.operator.n)), Ph(k)>>
    ELSE <<Ident(col), Text(" = "), Ph(k)>>

RECURSIVE ExpectedConditions(_, _, _)
\* the conditions of the entries from the i-th on that are bare values or
\* carry an operator of the enum
ExpectedConditions(where, i, base) ==
    IF i > Len(where) THEN <<>>
    ELSE LET v == where[i].val
             k == base + BoundBefore(where, i) + 1
         IN  (IF IsCondition(v) /\ ~HasKnownOperator(v) THEN <<>>
              ELSE <<ExpectedCondition(where[i].col, v, k)>>)
             \o ExpectedConditions(where, i + 1, base)

WhereSegment(sql) == Segment(sql, Text(" WHERE "), {Text(" RETURNING ")})

WhereExecuted ==
    bcall.op \in {"update", "delete"} /\ bout.state = "executed" /\ bcall.where.present

ConflictTarget(sql) ==
    Segment(sql, Text(") ON CONFLICT ("), {Text(") DO NOTHING"), Text(") DO UPDATE SET ")})

Assignments(sql) == Segment(sql, Text(") DO UPDATE SET "), {Text(" RETURNING ")})

Requests(action) ==
    bcall.op = "insert" /\ bcall.options.present /\ bcall.options.conflictAction = Str(action)

\* the places of the columns of values that are (inKeys) or are not in keys
ColumnsWhere(values, keys, inKeys) ==
    SelectSeq([i \in 1..Len(values) |-> i], LAMBDA i : (values[i].col \in keys) = inKeys)

\* C5: an insert with conflictAction 'update' puts every column named in
\* conflictKeys into the ON CONFLICT target and into no assignment, and every
\* other column into DO UPDATE SET as  column = X,  X being what the column has
\* in the VALUES list; with 'ignore' the target is followed by DO NOTHING and
\* by nothing but the RETURNING clause, and there are no assignments.
C5_ConflictClause ==
    (InsertExecuted /\ (Requests("update") \/ Requests("ignore"))) =>
        LET values == bcall.values
            keys == bcall.options.conflictKeys.keys
            inKeys == ColumnsWhere(values, keys, TRUE)
            others == ColumnsWhere(values, keys, FALSE)
            list == ValuesList(bout.sql)
            target == [j \in 1..Len(inKeys) |-> <<Ident(values[inKeys[j]].col)>>]
            assign == [j \in 1..Len(others) |->
                        <<Ident(values[others[j]].col), Text(" = "), list[others[j]]>>]
            done == First(bout.sql, {Text(") DO NOTHING")})
        IN  /\ ConflictTarget(bout.sql) = Join(target, Text(","))
            /\ Requests("update") =>
                  /\ Assignments(bout.sql) = Join(assign, Text(", "))
                  /\ done = 0
            /\ Requests("ignore") =>
                  /\ done > 0
                  /\ First(bout.sql, {Text(") DO UPDATE SET ")}) = 0
                  /\ IF bcall.options.returning.present
                     THEN bout.sql[done + 1] = Text(" RETURNING ")
                     ELSE done = Len(bout.sql)

\* insert("users", {id: 1, name: "Bo"}, {conflictAction: "update", conflictKeys: ["id"]})
C5_Witness ==
    /\ InsertExecuted /\ Requests("update")
    /\ bcall.values = Entries(<<Num(1), Str("Bo")>>)
    /\ bcall.options.conflictKeys.keys = {"id"}
    /\ ~bcall.options.returning.present
    /\ bout.params = <<Num(1), Str("Bo")>>
    /\ bout.sql = <<Text("INSERT INTO "), Ident("users"), Text(" ("),
                    Ident("id"), Text(", "), Ident("name"),
                    Text(") VALUES ("), Ph(1), Text(", "), Ph(2),
                    Text(") ON CONFLICT ("), Ident("id"),
                    Text(") DO UPDATE SET "), Ident("name"), Text(" = "), Ph(2)>>

\* C9: an insert that asks for conflict handling without conflictKeys, or with
\* none in it, fails with an error and executes no statement.
C9_ConflictKeysRequired ==
    ( /\ bout.state # "idle"
      /\ Requests("update") \/ Requests("ignore")
      /\ ~bcall.options.conflictKeys.present \/ bcall.options.conflictKeys.keys = {} ) =>
        bout.state = "threw"

-----------------------------------------------------------------------------
(* withTx: the claims                                                      *)

TxSpec == Init /\ [][TNext]_vars

\* the statements call f has sent
Sent(q, f) == {i \in 1..Len(qlog) : qlog[i] = [q |-> q, by |-> f]}

\* C6: when the unit of work of a withTx fails, ROLLBACK is sent after the
\* failure and before withTx returns to its caller, COMMIT is not sent, and
\* withTx rejects with the unit of work's error, whatever ROLLBACK's outcome.
C6_RollbackThenOriginalError ==
    \A f \in TxCalls :
        tx[f].failedAt > 0 =>
            /\ tx[f].pc \in {"rollback", "rejected"}
            /\ \E i \in Sent("ROLLBACK", f) : i > tx[f].failedAt
            /\ Sent("COMMIT", f) = {}
            /\ tx[f].pc = "rejected" => tx[f].thrown = "cbError"

\* a unit of work failed, its ROLLBACK failed too, and withTx has rejected
C6_Witness ==
    \E f \in TxCalls :
        /\ tx[f].failedAt > 0
        /\ tx[f].pc = "rejected"
        /\ ~tx[f].rollbackOk

\* the calls whose BEGIN has been sent and whose COMMIT or ROLLBACK has not
OpenTx == {f \in TxCalls : tx[f].pc \in {"begin", "cb", "nested"}}

\* C7: on one connection no BEGIN is sent while an earlier BEGIN has not been
\* followed by its COMMIT or ROLLBACK: at most one transaction is open.
C7_OneTransactionOpen == Cardinality(OpenTx) <= 1

-----------------------------------------------------------------------------
(* Manager: the claims                                                     *)

\* a Manager constructed in either mode
ManagerInit == BInit /\ TInit /\ PInit(TRUE) /\ \E single \in BOOLEAN : MInit(single)

ManagerSpec == ManagerInit /\ [][MNext]_vars

\* caller p releases the connection it holds in this step
Releases(p) == callers[p].pc = "holding" /\ callers'[p].pc = "idle"

\* caller p calls getConnection in this step
Acquires(p) == callers[p].pc = "idle" /\ callers'[p].pc # "idle"

\* caller p's pool.connect() resolves in this step
Connects(p) == callers[p].pc = "connecting" /\ callers'[p].pc = "holding"

\* C8: in single-connection mode a release with an error uncaches the
\* connection and hands its client to the pool with the error, and the next
\* getConnection creates a fresh connection and returns it; a release without
\* error leaves the cache and the pool alone, and getConnection returns the
\* cached connection. In pool mode every release hands the client and the
\* error to the pool's release.
C8_ReleaseWithError ==
    [][ /\ \A p \in Callers :
            LET c == callers[p].conn
                err == callers'[p].relErr
            IN  /\ (Releases(p) /\ usingSingleConnection /\ err # "none") =>
                        /\ singleConn' = 0
                        /\ pool[c].st = "out" => pool'[c] = [st |-> "removed", err |-> err]
                /\ (Releases(p) /\ usingSingleConnection /\ err = "none") =>
                        /\ singleConn' = singleConn
                        /\ pool' = pool
                /\ (Releases(p) /\ ~usingSingleConnection) =>
                        /\ pool[c].st = "out"
                        /\ pool'[c] = [st |-> IF err = "none" THEN "idle" ELSE "removed",
                                       err |-> err]
                /\ (Acquires(p) /\ usingSingleConnection) =>
                        IF singleConn # 0
                        THEN /\ callers'[p].pc = "holding"
                             /\ callers'[p].conn = singleConn
                             /\ pool' = pool /\ singleConn' = singleConn
                        ELSE callers'[p].pc = "connecting"
                /\ (Connects(p) /\ usingSingleConnection) =>
                        /\ pool[callers'[p].conn].st = "new"
                        /\ singleConn' = callers'[p].conn
        \* a connection released with an error is never the cached one
        /\ \A c \in Clients : pool'[c].st = "removed" => singleConn' # c
      ]_vars

\* single-connection mode: client 1 was released with an error, and a caller
\* has since been given the fresh, now cached, connection on client 2
C8_Witness ==
    /\ usingSingleConnection
    /\ pool[1] = [st |-> "removed", err |-> "error"]
    /\ singleConn = 2
    /\ \E p \in Callers : callers[p] = [pc |-> "holding", conn |-> 2, relErr |-> "none"]

LifecycleSpec == ManagerInit /\ [][LNext]_vars

\* shutdown call s completes in this step
Completes(s) == shut[s].pc # "resolved" /\ shut'[s].pc = "resolved"

\* shutdown call s is made in this step
Begins(s) == shut[s].pc = "idle" /\ shut'[s].pc # "idle"

\* a shutdown that ended the pool has completed
HasShutDown == \E t \in Shutdowns : shut[t].pc = "resolved" /\ shut[t].awaited

\* C13: no call of shutdown() is ever rejected, whether the pool refuses the
\* release of the single connection or its ending fails; at the step a call
\* completes, end() has been called on the pool exactly once, this.pool is
\* null and no single connection is cached, and for the call that awaited the
\* end the pool's ending has settled; end() is never called a second time;
\* and a call made after a shutdown has completed changes nothing and
\* completes at once.
C13_ShutdownNeverRaises ==
    [][ /\ \A s \in Shutdowns : shut'[s].pc # "rejected"
        /\ \A s \in Shutdowns :
            Completes(s) =>
                /\ thisPool' = "null"
                /\ singleConn' = 0
                /\ poolEnd'.calls = 1
                /\ poolEnd'.st # "open"
                /\ shut'[s].awaited => poolEnd'.st \in {"ended", "failed"}
        /\ poolEnd'.calls <= 1
        /\ \A s \in Shutdowns :
            (Begins(s) /\ HasShutDown) =>
                /\ shut'[s].pc = "resolved"
                /\ UNCHANGED <<singleConn, pool, thisPool, poolEnd>>
      ]_vars

\* single-connection mode: a shutdown released the cached connection on
\* client 1, which a withConnection call had checked out, with its error and
\* completed although the pool's ending failed, and a further shutdown has
\* completed too
C13_Witness ==
    /\ usingSingleConnection
    /\ pool[1] = [st |-> "removed", err |-> "shutting down"]
    /\ poolEnd = [calls |-> 1, st |-> "failed"]
    /\ shut[1] = [pc |-> "resolved", awaited |-> TRUE]
    /\ shut[2] = [pc |-> "resolved", awaited |-> FALSE]
    /\ thisPool = "null" /\ singleConn = 0

\* the callers that hold a connection whose client is still checked out
Holders == {p \in Callers : callers[p].pc = "holding" /\ callers[p].conn \in CheckedOut}

\* C14: in single-connection mode, whatever the interleaving of the
\* getConnection calls, at most one client is checked out of the pool, the
\* callers that hold a live connection all hold the same one, and every
\* checked-out client that has not ended is the one the manager has cached.
C14_SingleCheckout ==
    usingSingleConnection =>
        /\ Cardinality(CheckedOut) <= 1
        /\ \A p, q \in Holders : callers[p].conn = callers[q].conn
        /\ \A c \in CheckedOut \cap listeners : singleConn = c

\* C15: a withConnection call that was given a connection and has completed
\* called release on it exactly once: without an error after the callback
\* returned, and the call resolved with the callback's result; with the
\* callback's error after the callback failed, and the call rejected with
\* that same error.
C15_ReleasedExactlyOnce ==
    \A w \in WithCalls :
        (wc[w].pc \in {"resolved", "rejected"} /\ wc[w].conn # 0) =>
            /\ wc[w].cb = "returned" =>
                    /\ wc[w].released = <<"none">>
                    /\ wc[w].pc = "resolved" /\ wc[w].out = "result"
            /\ wc[w].cb = "threw" =>
                    /\ wc[w].released = <<"cb error">>
                    /\ wc[w].pc = "rejected" /\ wc[w].out = "cb error"

-----------------------------------------------------------------------------
(* parser: the claims                                                      *)

\* the module loaded, registerParsers not yet called
ParserInit == BInit /\ TInit /\ MInit(TRUE) /\ PInit(FALSE)

ParserSpec == ParserInit /\ [][PNext]_vars

\* C10: every registered parser, given null, returns null and invokes no
\* transform; and materializing an array passes every NULL element through as
\* null without invoking the element parser.
C10_NullPropagation ==
    /\ (dec.state # "idle" /\ dec.input = Null) =>
            dec.res = Returned(Null, <<>>)
    /\ dec.state = "materialized" =>
            \A i \in 1..Len(dec.input.items) :
                dec.input.items[i] = "NULL" => dec.elems[i] = Returned(Null, <<>>)

\* the scalar wire type whose values are the elements of the array type
ScalarOf(type) ==
    CASE type = "_date" -> "DATE"
      [] type = "_time" -> "TIME"
      [] type = "_timetz" -> "TIMETZ"
      [] type = "_timestamp" -> "TIMESTAMP"
      [] type = "_timestamptz" -> "TIMESTAMPTZ"
      [] type = "_int2" -> "INT2"
      [] type = "_int4" -> "INT4"
      [] type = "_int8" -> "INT8"
      [] type = "_float4" -> "FLOAT4"
      [] type = "_float8" -> "FLOAT8"
      [] type = "_numeric" -> "NUMERIC"
      [] type = "_money" -> "MONEY"
      [] type = "_bool" -> "BOOL"
      [] type = "_bytea" -> "BYTEA"

\* C11: when the lazy value of a registered array type is materialized, every
\* element that is not NULL is decoded exactly as the parser registered for the
\* corresponding scalar type decodes the same text: same value, same library
\* functions invoked, same failure.
C11_ElementDecoderIsScalarDecoder ==
    dec.state = "materialized" =>
        \A i \in 1..Len(dec.input.items) :
            dec.input.items[i] # "NULL" =>
                dec.elems[i] = Apply(typeParsers[ScalarOf(dec.type)].parser,
                                     Str(dec.input.items[i]), dec.onNull)

-----------------------------------------------------------------------------
(* Manager: the constructor                                                *)

\* the module loaded, no Manager constructed yet
ConstructorInit == BInit /\ TInit /\ MNone /\ PInit(FALSE)

ConstructorSpec == ConstructorInit /\ [][NewManager]_vars

\* the required field f is missing from the options
Lacks(options, f) == Get(options, f) = Undefined

\* C12: new Manager(options) with options that lack user, password or
\* database throws: no Manager is constructed and no Pool is created.
C12_RequiredFields ==
    (/\ manager.state # "none"
     /\ \E f \in {"user", "password", "database"} : Lacks(manager.options, f))
        => manager.state = "threw"

=============================================================================
